---- MODULE Spec2Model ----
(***************************************************************************)
(* Model of main.py (github-stats-counter): get_github_data (paged fetch   *)
(* with rate-limit retry), get_commit_details, get_user_stats_per_endpoint *)
(* (per-contributor aggregation) and the merge and report of main.         *)
(*                                                                         *)
(* The remote API is part of the state: `remote` is the list the server    *)
(* holds for the endpoint being fetched, and every list item carries the   *)
(* answer of its own sub-resource (a pull request's /files, a commit's     *)
(* detail).  Network-level faults (no HTTP status at all) are not modelled.*)
(***************************************************************************)
EXTENDS Integers, Sequences, FiniteSets, TLC

VARIABLES
    remote,       \* the server's list for the endpoint being fetched
    stuckPage,    \* the page the server answers with 403 on every request (0: none)
    endpoint,     \* 'pulls' or 'commits'
    pc,           \* position of the run
    page,         \* get_github_data: page
    items,        \* get_github_data: items
    reqLog,       \* pages of the requests.get calls of the current get_github_data call
    statusLog,    \* status codes of their responses
    sleepTotal,   \* seconds slept by the current get_github_data call
    agg_items,    \* get_user_stats_per_endpoint: items
    idx,          \* get_user_stats_per_endpoint: position of the for loop
    ustats,       \* get_user_stats_per_endpoint: user_stats
    pr_stats,     \* main: pr_stats
    commit_stats, \* main: commit_stats
    user_stats,   \* main: user_stats
    out           \* what main printed

vars == <<remote, stuckPage, endpoint, pc, page, items, reqLog, statusLog,
          sleepTotal, agg_items, idx, ustats, pr_stats, commit_stats,
          user_stats, out>>

fetchVars == <<page, items, reqLog, statusLog, sleepTotal>>
aggVars == <<agg_items, idx, ustats>>
mainVars == <<pr_stats, commit_stats, user_stats, out>>

(***************************************************************************)
(* Program constants and bounds                                            *)
(***************************************************************************)
PerPage == 100
SleepSeconds == 60
StatusOk == 200
StatusRateLimit == 403

\* other statuses the server may answer with
FailStatuses == {404, 500}

\* full pages of the remote list in the paged-fetch specification
MaxFullPages == 2
\* consecutive 403 answers of a server that does not rate-limit forever
MaxRetries == 2
\* items of a remote list in the specification of a whole run of main
MaxItems == 2
\* items of a remote list in the specification of one aggregation call
MaxAggItems == 3

\* requests after which a server that rate-limits forever is no longer followed
MaxRequests == (MaxFullPages + 1) * (MaxRetries + 1) + MaxRetries + 2

Min(a, b) == IF a < b THEN a ELSE b
Last(s) == s[Len(s)]

RECURSIVE CountOf(_, _)
CountOf(s, v) ==
    IF s = <<>> THEN 0
    ELSE (IF Head(s) = v THEN 1 ELSE 0) + CountOf(Tail(s), v)

\* number of 403 answers at the end of the status log
RECURSIVE TrailingLimits(_)
TrailingLimits(s) ==
    IF s = <<>> \/ Last(s) # StatusRateLimit THEN 0
    ELSE 1 + TrailingLimits(SubSeq(s, 1, Len(s) - 1))

(***************************************************************************)
(* Python values                                                           *)
(***************************************************************************)
\* a key that the JSON object does not have
Absent == "<absent>"
\* JSON null, Python None (also as a dict key)
None == "<None>"

\* A dict of user statistics: its keys in insertion order and its values.
EmptyDict == [ord |-> <<>>, map |-> <<>>]
Has(d, k) == k \in DOMAIN d.map
Keys(d) == DOMAIN d.map

\* nothing printed yet
NoOutput == [kind |-> "none", rows |-> <<>>]

\* lines 69, 90, 129, 137: {'prs': 0, 'commits': 0, 'lines': 0}
ZeroStats == [prs |-> 0, commits |-> 0, lines |-> 0]

\* lines 68-69 (and 89-90, 128-129, 136-137): if k not in d: d[k] = {...}
SetDefault(d, k) ==
    IF Has(d, k) THEN d
    ELSE [ord |-> Append(d.ord, k), map |-> (k :> ZeroStats) @@ d.map]


(***************************************************************************)
(* get_github_data                                                         *)
(***************************************************************************)
\* the body of a 200 answer to ?per_page=100&page=p
PageData(list, p) ==
    SubSeq(list, (p - 1) * PerPage + 1, Min(p * PerPage, Len(list)))

\* faulty variant of LastPage: a full page ends the loop too
LastPage_OffByOne(data) == Len(data) <= PerPage
\* line 26: if len(data) < params['per_page']: break
LastPage(data) == Len(data) < PerPage

\* lines 23-28: status 200
Success ==
    /\ pc = "fetch"
    /\ page # stuckPage
    /\ LET data == PageData(remote, page) IN
        /\ items' = items \o data
        /\ IF LastPage(data)
              THEN pc' = "ret" /\ page' = page
              ELSE pc' = "fetch" /\ page' = page + 1
    /\ reqLog' = Append(reqLog, page)
    /\ statusLog' = Append(statusLog, StatusOk)
    /\ UNCHANGED <<remote, stuckPage, endpoint, sleepTotal>>
    /\ UNCHANGED aggVars
    /\ UNCHANGED mainVars

\* faulty variant of RateLimited: the retry moves on to the next page
RateLimited_NextPage ==
    /\ pc = "fetch"
    /\ IF page = stuckPage
          THEN Len(reqLog) < MaxRequests
          ELSE TrailingLimits(statusLog) < MaxRetries
    /\ reqLog' = Append(reqLog, page)
    /\ statusLog' = Append(statusLog, StatusRateLimit)
    /\ sleepTotal' = sleepTotal + SleepSeconds
    /\ page' = page + 1
    /\ UNCHANGED <<remote, stuckPage, endpoint, pc, items>>
    /\ UNCHANGED aggVars
    /\ UNCHANGED mainVars

\* faulty variant of RateLimited: a 403 answer ends the loop
RateLimited_GiveUp ==
    /\ pc = "fetch"
    /\ IF page = stuckPage
          THEN Len(reqLog) < MaxRequests
          ELSE TrailingLimits(statusLog) < MaxRetries
    /\ reqLog' = Append(reqLog, page)
    /\ statusLog' = Append(statusLog, StatusRateLimit)
    /\ sleepTotal' = sleepTotal + SleepSeconds
    /\ pc' = "ret"
    /\ UNCHANGED <<remote, stuckPage, endpoint, page, items>>
    /\ UNCHANGED aggVars
    /\ UNCHANGED mainVars

\* lines 29-32: status 403: sleep 60 seconds, continue
RateLimited ==
    /\ pc = "fetch"
    /\ IF page = stuckPage
          THEN Len(reqLog) < MaxRequests
          ELSE TrailingLimits(statusLog) < MaxRetries
    /\ reqLog' = Append(reqLog, page)
    /\ statusLog' = Append(statusLog, StatusRateLimit)
    /\ sleepTotal' = sleepTotal + SleepSeconds
    /\ UNCHANGED <<remote, stuckPage, endpoint, pc, page, items>>
    /\ UNCHANGED aggVars
    /\ UNCHANGED mainVars

\* faulty variant of Failed: the failed page is skipped and the loop goes on
Failed_SkipPage ==
    /\ pc = "fetch"
    /\ page # stuckPage
    /\ \E st \in FailStatuses :
        statusLog' = Append(statusLog, st)
    /\ reqLog' = Append(reqLog, page)
    /\ page' = page + 1
    /\ UNCHANGED <<remote, stuckPage, endpoint, pc, items, sleepTotal>>
    /\ UNCHANGED aggVars
    /\ UNCHANGED mainVars

\* lines 33-35: any other status: print, break
Failed ==
    /\ pc = "fetch"
    /\ page # stuckPage
    /\ \E st \in FailStatuses :
        statusLog' = Append(statusLog, st)
    /\ reqLog' = Append(reqLog, page)
    /\ pc' = "ret"
    /\ UNCHANGED <<remote, stuckPage, endpoint, page, items, sleepTotal>>
    /\ UNCHANGED aggVars
    /\ UNCHANGED mainVars

\* the list of item ids 1..n
IdList(n) == [i \in 1..n |-> i]

\* a remote list of k full pages and a last page of m items, m in {0, 1, 99}
FetchLengths ==
    { PerPage * k + m : k \in 0..MaxFullPages, m \in {0, 1, PerPage - 1} }

InitFetch ==
    /\ remote \in { IdList(n) : n \in FetchLengths }
    /\ stuckPage \in 0..(MaxFullPages + 2)
    /\ endpoint = "pulls"
    /\ pc = "fetch"
    /\ page = 1
    /\ items = <<>>
    /\ reqLog = <<>>
    /\ statusLog = <<>>
    /\ sleepTotal = 0
    /\ agg_items = <<>>
    /\ idx = 1
    /\ ustats = EmptyDict
    /\ pr_stats = EmptyDict
    /\ commit_stats = EmptyDict
    /\ user_stats = EmptyDict
    /\ out = NoOutput

NextFetch == Success \/ RateLimited \/ Failed

\* one call of get_github_data, up to its return statement
SpecFetch == InitFetch /\ [][NextFetch]_vars

\* the loop keeps running: every iteration's request is answered
LiveFetch == InitFetch /\ [][NextFetch]_vars /\ WF_vars(NextFetch)

(***************************************************************************)
(* Remote items.  A pull-request item is the list item (its 'user' field:  *)
(* missing, null or an object whose 'login' may be absent) together with   *)
(* the answer of its /files sub-resource; a commit item is the list item   *)
(* ('author' and 'commit.author', each missing, null or an object) with    *)
(* the answer of the commit detail resource.  Every item has its 'url' or  *)
(* 'sha'.                                                                  *)
(***************************************************************************)
FileEntry(n) == [has_changes |-> TRUE, changes |-> n]
FileNoChanges == [has_changes |-> FALSE, changes |-> 0]

PullItem(user, login, st, files) ==
    [user |-> user, login |-> login, files_status |-> st, files |-> files]

PullUniverse ==
    { PullItem("obj", "alice", 200, <<FileEntry(3), FileEntry(4)>>),
      PullItem("obj", "bob", 200, <<FileEntry(5), FileNoChanges>>),
      PullItem("obj", "alice", 404, <<FileEntry(7)>>),
      PullItem("missing", Absent, 200, <<FileEntry(1)>>),
      PullItem("obj", "", 200, <<FileEntry(2)>>),
      PullItem("null", Absent, 200, <<>>) }

CommitItem(author, login, meta, name, st, stats, a, d) ==
    [author |-> author, login |-> login, meta |-> meta, name |-> name,
     detail_status |-> st, stats |-> stats, additions |-> a, deletions |-> d]

CommitUniverse ==
    { CommitItem("obj", "carol", "obj", "Carol S.", 200, "obj", 2, 1),
      CommitItem("missing", Absent, "obj", "Jane Doe", 500, "obj", 1, 1),
      CommitItem("null", Absent, "obj", "Jane Doe", 200, "obj", 1, 0),
      CommitItem("obj", Absent, "obj", "Jane Doe", 200, "missing", 0, 0),
      CommitItem("obj", "", "obj", "Jane Doe", 200, "obj", 0, 3),
      CommitItem("obj", "", "obj", "", 200, "obj", 1, 2),
      CommitItem("obj", "alice", "obj", "Alice A.", 200, "obj", 4, 4),
      CommitItem("missing", Absent, "missing", Absent, 200, "obj", 2, 2) }

SeqsUpTo(S, n) == UNION { [1..k -> S] : k \in 0..n }
PullLists == SeqsUpTo(PullUniverse, MaxItems)
CommitLists == SeqsUpTo(CommitUniverse, MaxItems)

(***************************************************************************)
(* get_commit_details                                                      *)
(***************************************************************************)
\* lines 46-53: (additions, deletions) of a 200 answer, else (0, 0)
get_commit_details(item) ==
    IF item.detail_status = 200
       THEN <<IF item.stats = "obj" THEN item.additions ELSE 0,
              IF item.stats = "obj" THEN item.deletions ELSE 0>>
       ELSE <<0, 0>>

(***************************************************************************)
(* get_user_stats_per_endpoint                                             *)
(***************************************************************************)
\* Python's `not v` for a string or None
Falsy(v) == v = None \/ v = ""

\* line 62: item.get('user', {}) is None when the field is null, and
\* None.get raises AttributeError
PullRaises(item) == item.user = "null"

\* line 62: item.get('user', {}).get('login', 'unknown')
PullLogin(item) ==
    IF item.user = "missing" \/ item.login = Absent THEN "unknown"
    ELSE item.login

\* line 64: item.get('author', {}).get('login', None)
AuthorLogin(item) ==
    IF item.author = "missing" \/ item.login = Absent THEN None
    ELSE item.login

\* line 66: item.get('commit', {}).get('author', {}).get('name', 'unknown')
MetaName(item) ==
    IF item.meta = "missing" \/ item.name = Absent THEN "unknown"
    ELSE item.name

\* lines 64-66: None.get raises AttributeError when 'author' is null, or
\* when the fallback is taken and 'commit.author' is null
CommitRaises(item) ==
    \/ item.author = "null"
    \/ (Falsy(AuthorLogin(item)) /\ item.meta = "null")

\* lines 64-66 and again 83-86
CommitLogin(item) ==
    IF ~Falsy(AuthorLogin(item)) THEN AuthorLogin(item) ELSE MetaName(item)

\* line 79: sum(f.get('changes', 0) for f in pr_files)
RECURSIVE SumChanges(_)
SumChanges(files) ==
    IF files = <<>> THEN 0
    ELSE (IF Head(files).has_changes THEN Head(files).changes ELSE 0)
         + SumChanges(Tail(files))

\* faulty variant of PullLines: the status of the /files answer is ignored
PullLines_IgnoreStatus(item) == SumChanges(item.files)
\* lines 76-79: the lines of a pull request, 0 unless /files answers 200
PullLines(item) ==
    IF item.files_status = 200 THEN SumChanges(item.files) ELSE 0

\* faulty variant of PullStep: prs is counted only when /files answers 200
PullStep_CountInsideIf(d, item) ==
    LET k == PullLogin(item)
        d1 == SetDefault(d, k)
    IN  IF item.files_status = 200
           THEN [d1 EXCEPT !.map[k].prs = @ + 1,
                           !.map[k].lines = @ + SumChanges(item.files)]
           ELSE d1
\* lines 62, 68-79: one iteration of the loop for 'pulls'
PullStep(d, item) ==
    LET k == PullLogin(item)
        d1 == SetDefault(d, k)
    IN  [d1 EXCEPT !.map[k].prs = @ + 1,
                   !.map[k].lines = @ + PullLines(item)]

\* faulty variant of CommitStep: only a contributor's first commit is counted
CommitStep_FirstOnly(d, item) ==
    LET k == CommitLogin(item)
        det == get_commit_details(item)
    IN  IF Has(d, k) THEN d
        ELSE [ord |-> Append(d.ord, k),
              map |-> (k :> [prs |-> 0, commits |-> 1,
                             lines |-> det[1] + det[2]]) @@ d.map]
\* lines 64-69, 83-102: one iteration of the loop for 'commits'
CommitStep(d, item) ==
    LET k == CommitLogin(item)
        d1 == SetDefault(d, k)
        det == get_commit_details(item)
    IN  [d1 EXCEPT !.map[k].commits = @ + 1,
                   !.map[k].lines = @ + (det[1] + det[2])]

StepRaises(ep, item) ==
    IF ep = "pulls" THEN PullRaises(item) ELSE CommitRaises(item)
Step(ep, d, item) ==
    IF ep = "pulls" THEN PullStep(d, item) ELSE CommitStep(d, item)

\* line 36 and lines 57-58: get_github_data returns its items, its locals
\* are gone, and get_user_stats_per_endpoint starts with an empty user_stats
Return ==
    /\ pc = "ret"
    /\ agg_items' = items
    /\ idx' = 1
    /\ ustats' = EmptyDict
    /\ pc' = "agg"
    /\ page' = 1
    /\ items' = <<>>
    /\ reqLog' = <<>>
    /\ statusLog' = <<>>
    /\ sleepTotal' = 0
    /\ UNCHANGED <<remote, stuckPage, endpoint>>
    /\ UNCHANGED mainVars

\* lines 60-102: one iteration of `for item in items`; an AttributeError is
\* caught nowhere and ends the run
AggStep ==
    /\ pc = "agg"
    /\ idx <= Len(agg_items)
    /\ IF StepRaises(endpoint, agg_items[idx])
          THEN /\ pc' = "raised"
               /\ UNCHANGED <<idx, ustats>>
          ELSE /\ ustats' = Step(endpoint, ustats, agg_items[idx])
               /\ idx' = idx + 1
               /\ pc' = pc
    /\ UNCHANGED <<remote, stuckPage, endpoint, agg_items>>
    /\ UNCHANGED fetchVars
    /\ UNCHANGED mainVars

\* lines 58-104: the whole loop over a list of items; nothing is returned
\* when an iteration raises
RECURSIVE Aggregate(_, _, _)
Aggregate(ep, list, d) ==
    IF list = <<>> THEN [raised |-> FALSE, stats |-> d]
    ELSE IF StepRaises(ep, Head(list)) THEN [raised |-> TRUE, stats |-> EmptyDict]
    ELSE Aggregate(ep, Tail(list), Step(ep, d, Head(list)))

InitAgg ==
    /\ endpoint \in {"pulls", "commits"}
    /\ remote \in IF endpoint = "pulls"
                     THEN SeqsUpTo(PullUniverse, MaxAggItems)
                     ELSE SeqsUpTo(CommitUniverse, MaxAggItems)
    /\ stuckPage = 0
    /\ pc = "fetch"
    /\ page = 1
    /\ items = <<>>
    /\ reqLog = <<>>
    /\ statusLog = <<>>
    /\ sleepTotal = 0
    /\ agg_items = <<>>
    /\ idx = 1
    /\ ustats = EmptyDict
    /\ pr_stats = EmptyDict
    /\ commit_stats = EmptyDict
    /\ user_stats = EmptyDict
    /\ out = NoOutput

NextAgg == Success \/ RateLimited \/ Failed \/ Return \/ AggStep

\* one call of get_user_stats_per_endpoint, up to its return statement
SpecAgg == InitAgg /\ [][NextAgg]_vars

(***************************************************************************)
(* main                                                                    *)
(***************************************************************************)
\* faulty variant of MergeEntry: lines is assigned, not added
MergeEntry_Overwrite(us, u, st, field) ==
    LET u1 == SetDefault(us, u)
    IN  [u1 EXCEPT !.map[u][field] = st[field],
                   !.map[u].lines = st.lines]
\* lines 128-131 (field 'prs') and 136-139 (field 'commits')
MergeEntry(us, u, st, field) ==
    LET u1 == SetDefault(us, u)
    IN  [u1 EXCEPT !.map[u][field] = st[field],
                   !.map[u].lines = @ + st.lines]

\* lines 127-131 and 135-139: for user, stats in <dict>.items()
RECURSIVE MergeLoop(_, _, _, _)
MergeLoop(us, ps, i, field) ==
    IF i > Len(ps.ord) THEN us
    ELSE MergeLoop(MergeEntry(us, ps.ord[i], ps.map[ps.ord[i]], field),
                   ps, i + 1, field)

\* line 104, lines 126-131 and the call of line 134: the pull-request stats
\* are returned and merged, and the commits are fetched
MergePulls ==
    /\ pc = "agg"
    /\ endpoint = "pulls"
    /\ idx > Len(agg_items)
    /\ pr_stats' = ustats
    /\ user_stats' = MergeLoop(user_stats, ustats, 1, "prs")
    /\ endpoint' = "commits"
    /\ remote' \in CommitLists
    /\ pc' = "fetch"
    /\ agg_items' = <<>>
    /\ idx' = 1
    /\ ustats' = EmptyDict
    /\ UNCHANGED <<stuckPage, commit_stats, out>>
    /\ UNCHANGED fetchVars

\* line 104 and lines 134-139: the commit stats are returned and merged
MergeCommits ==
    /\ pc = "agg"
    /\ endpoint = "commits"
    /\ idx > Len(agg_items)
    /\ commit_stats' = ustats
    /\ user_stats' = MergeLoop(user_stats, ustats, 1, "commits")
    /\ pc' = "report"
    /\ agg_items' = <<>>
    /\ idx' = 1
    /\ ustats' = EmptyDict
    /\ UNCHANGED <<remote, stuckPage, endpoint, pr_stats, out>>
    /\ UNCHANGED fetchVars

\* line 145: key=lambda x: (x[1]['prs'], x[1]['commits'], x[1]['lines'])
KeyLess(a, b) ==
    \/ a.prs < b.prs
    \/ (a.prs = b.prs /\ a.commits < b.commits)
    \/ (a.prs = b.prs /\ a.commits = b.commits /\ a.lines < b.lines)

\* u is put behind every user whose key is not less than its own
RECURSIVE InsertDesc(_, _, _)
InsertDesc(sorted, d, u) ==
    IF sorted = <<>> THEN <<u>>
    ELSE IF KeyLess(d.map[Head(sorted)], d.map[u])
            THEN <<u>> \o sorted
            ELSE <<Head(sorted)>> \o InsertDesc(Tail(sorted), d, u)

\* line 145: sorted(user_stats.items(), key=..., reverse=True), which is stable
RECURSIVE SortedUsers(_, _)
SortedUsers(d, n) ==
    IF n = 0 THEN <<>>
    ELSE InsertDesc(SortedUsers(d, n - 1), d, d.ord[n])

\* line 150: one line of the report
Row(d, u) ==
    [user |-> u, prs |-> d.map[u].prs, commits |-> d.map[u].commits,
     lines |-> d.map[u].lines]

\* lines 142-152
Report ==
    /\ pc = "report"
    /\ out' = IF user_stats.ord # <<>>
                 THEN [kind |-> "table",
                       rows |-> LET su == SortedUsers(user_stats, Len(user_stats.ord))
                                IN  [i \in 1..Len(su) |-> Row(user_stats, su[i])]]
                 ELSE [kind |-> "empty", rows |-> <<>>]
    /\ pc' = "done"
    /\ UNCHANGED <<remote, stuckPage, endpoint, pr_stats, commit_stats, user_stats>>
    /\ UNCHANGED fetchVars
    /\ UNCHANGED aggVars

\* main after line 123, inside the call of line 126
Init ==
    /\ remote \in PullLists
    /\ stuckPage = 0
    /\ endpoint = "pulls"
    /\ pc = "fetch"
    /\ page = 1
    /\ items = <<>>
    /\ reqLog = <<>>
    /\ statusLog = <<>>
    /\ sleepTotal = 0
    /\ agg_items = <<>>
    /\ idx = 1
    /\ ustats = EmptyDict
    /\ pr_stats = EmptyDict
    /\ commit_stats = EmptyDict
    /\ user_stats = EmptyDict
    /\ out = NoOutput

Next ==
    \/ Success
    \/ RateLimited
    \/ Failed
    \/ Return
    \/ AggStep
    \/ MergePulls
    \/ MergeCommits
    \/ Report

\* one run of main with well-formed dates and URL
Spec == Init /\ [][Next]_vars

(***************************************************************************)
(* Properties of get_github_data                                           *)
(***************************************************************************)
AllOk(log) == \A i \in 1..Len(log) : log[i] = StatusOk
FullPages == Len(remote) \div PerPage
LastPageNo == FullPages + 1

\* C1: against a server that answers every request with 200 and holds k full
\* pages of 100 items and a last page of m < 100 items, get_github_data
\* returns the 100k + m items in page order and has requested exactly the
\* pages 1..k+1, in increasing order (one request when the first page is short).
C1_PagedFetchComplete ==
    (pc = "ret" /\ AllOk(statusLog)) =>
        /\ items = remote
        /\ Len(items) = PerPage * FullPages + (Len(remote) % PerPage)
        /\ reqLog = [i \in 1..(FullPages + 1) |-> i]
        /\ (Len(remote) < PerPage => Len(reqLog) = 1)

C1_Witness ==
    /\ pc = "ret"
    /\ AllOk(statusLog)
    /\ Len(items) = 2 * PerPage - 1
    /\ reqLog = <<1, 2>>

\* C2: every 403 answer costs one request and one 60-second sleep, leaves the
\* page number and the accumulated items as they were and keeps the loop
\* running, and the request that follows a 403 answer is for the same page.
C2_RateLimitRetry ==
    /\ [][(Len(statusLog') = Len(statusLog) + 1 /\ Last(statusLog') = StatusRateLimit)
            => /\ Len(reqLog') = Len(reqLog) + 1
               /\ page' = page
               /\ items' = items
               /\ sleepTotal' = sleepTotal + SleepSeconds
               /\ pc' = "fetch"]_vars
    /\ [][(statusLog # <<>> /\ Last(statusLog) = StatusRateLimit
            /\ Len(reqLog') = Len(reqLog) + 1)
            => Last(reqLog') = Last(reqLog)]_vars
    /\ [](sleepTotal = SleepSeconds * CountOf(statusLog, StatusRateLimit))

C2_Witness ==
    /\ statusLog = <<StatusOk, StatusRateLimit, StatusRateLimit, StatusOk>>
    /\ reqLog = <<1, 2, 2, 2>>
    /\ sleepTotal = 2 * SleepSeconds
    /\ Len(items) = 2 * PerPage - 1

\* C3: a status that is neither 200 nor 403 ends the loop at once: it is the
\* last request of the call, the call returns normally, and what it returns
\* is exactly the pages that were answered with 200 before it.
C3_FailureStopsLoop ==
    /\ \A i \in 1..Len(statusLog) :
          statusLog[i] \in FailStatuses => i = Len(statusLog) /\ pc = "ret"
    /\ (statusLog # <<>> /\ Last(statusLog) \in FailStatuses) =>
          /\ items = SubSeq(remote, 1, PerPage * CountOf(statusLog, StatusOk))
          /\ Len(items) = PerPage * (page - 1)
          /\ (page = 1 => items = <<>>)

C3_Witness ==
    /\ pc = "ret"
    /\ statusLog = <<StatusOk, 404>>
    /\ reqLog = <<1, 2>>
    /\ Len(items) = PerPage

\* C10: if the server rate-limits no page that the call reaches forever, the
\* call reaches its return statement; while the server answers the current
\* page with 403 on every request the call does not return, does not leave
\* the page and does not fail.
C10_ReturnsUnlessStuck ==
    /\ (stuckPage = 0 \/ stuckPage > LastPageNo) ~> (pc = "ret")
    /\ [](page = stuckPage => pc = "fetch")
    /\ [][page = stuckPage => (page' = page /\ pc' = "fetch" /\ items' = items)]_vars

C10_Witness ==
    /\ page = stuckPage
    /\ page = 2
    /\ pc = "fetch"
    /\ TrailingLimits(statusLog) > MaxRetries + 1

(***************************************************************************)
(* Properties of get_user_stats_per_endpoint                               *)
(***************************************************************************)
AtAggReturn == pc = "agg" /\ idx > Len(agg_items)
Done(n) == 1..(n - 1)

\* the identity C4 gives a commit item
ClaimedIdentity(item) ==
    IF item.author = "obj" /\ item.login \notin {Absent, None, ""}
       THEN item.login
       ELSE IF item.meta = "obj" /\ item.name # Absent
               THEN item.name
               ELSE "unknown"

\* C4: in the commits branch every item, whatever the shape of its missing
\* platform login (author missing, author null, login missing, login empty),
\* is counted under the login if it has one, else under the commit-metadata
\* author name, else under "unknown", and the aggregation does not fail.
C4_CommitIdentityAllShapes ==
    endpoint = "commits" =>
        /\ pc # "raised"
        /\ pc = "agg" =>
              \A i \in Done(idx) :
                  LET k == ClaimedIdentity(agg_items[i])
                  IN  /\ Has(ustats, k)
                      /\ ustats.map[k].commits =
                            Cardinality({ j \in Done(idx) :
                                ClaimedIdentity(agg_items[j]) = k })

\* The rule of C4 as the code has it: it holds of every item the loop gets
\* through, and the loop raises exactly at an item whose 'author' is null.
CommitIdentityUnlessNull ==
    endpoint = "commits" =>
        /\ pc = "raised" => agg_items[idx].author = "null"
        /\ pc = "agg" =>
              \A i \in Done(idx) :
                  LET k == ClaimedIdentity(agg_items[i])
                  IN  /\ agg_items[i].author # "null"
                      /\ Has(ustats, k)
                      /\ ustats.map[k].commits =
                            Cardinality({ j \in Done(idx) :
                                ClaimedIdentity(agg_items[j]) = k })

\* C5: in both branches an identity that is present but empty is treated as
\* absent, so no key of the mapping is the empty string.
C5_NoBlankKey == ~Has(ustats, "")

RECURSIVE RefPullLines(_, _, _)
RefPullLines(list, n, u) ==
    IF n = 0 THEN 0
    ELSE RefPullLines(list, n - 1, u)
         + (IF PullLogin(list[n]) = u /\ list[n].files_status = 200
               THEN SumChanges(list[n].files) ELSE 0)

\* C7: for 'pulls' the mapping has one record for each login of the items
\* gone through; its prs is the number of those items with that login, its
\* lines is the sum of the change counts of their /files answers (an item
\* whose /files request did not succeed adds 0 and is still counted), and
\* its commits is 0.  This holds at the return statement.
C7_PullCounts ==
    (endpoint = "pulls" /\ pc = "agg") =>
        /\ Keys(ustats) = { PullLogin(agg_items[i]) : i \in Done(idx) }
        /\ \A u \in Keys(ustats) :
              /\ ustats.map[u].prs =
                    Cardinality({ i \in Done(idx) : PullLogin(agg_items[i]) = u })
              /\ ustats.map[u].lines = RefPullLines(agg_items, idx - 1, u)
              /\ ustats.map[u].commits = 0

C7_Witness ==
    /\ endpoint = "pulls"
    /\ AtAggReturn
    /\ Len(agg_items) = 3
    /\ Keys(ustats) = {"alice", "bob"}
    /\ ustats.map["alice"] = [prs |-> 2, commits |-> 0, lines |-> 7]
    /\ ustats.map["bob"] = [prs |-> 1, commits |-> 0, lines |-> 5]
    /\ \E i \in 1..3 : agg_items[i].files_status # 200

Perms(n) ==
    { f \in [1..n -> 1..n] : \A i, j \in 1..n : i # j => f[i] # f[j] }
Permuted(list, f) == [i \in 1..Len(list) |-> list[f[i]]]

\* C9: the mapping returned for a list of items is the mapping returned for
\* every permutation of the list, for 'pulls' and for 'commits' (and when
\* the call raises, it raises for every permutation).
C9_OrderIndependent ==
    /\ AtAggReturn =>
          \A f \in Perms(Len(agg_items)) :
              LET r == Aggregate(endpoint, Permuted(agg_items, f), EmptyDict)
              IN  ~r.raised /\ r.stats.map = ustats.map
    /\ pc = "raised" =>
          \A f \in Perms(Len(agg_items)) :
              Aggregate(endpoint, Permuted(agg_items, f), EmptyDict).raised

C9_Witness ==
    /\ endpoint = "commits"
    /\ AtAggReturn
    /\ Len(agg_items) = 3
    /\ Cardinality(Keys(ustats)) = 2
    /\ ustats.ord = <<"carol", "Jane Doe">>
    /\ ustats.map["Jane Doe"].commits = 2
    /\ ustats.map["Jane Doe"].lines = 3
    /\ agg_items[1] # agg_items[2] /\ agg_items[2] # agg_items[3]

(***************************************************************************)
(* Properties of main                                                      *)
(***************************************************************************)
Reported == pc \in {"report", "done"}

\* C6: in every run that reaches the report, every contributor of the merged
\* mapping has pullRequests > 0 or commits > 0, and no counter is negative.
C6_ReportedContributorsCount ==
    Reported =>
        \A u \in Keys(user_stats) :
            /\ user_stats.map[u].prs > 0 \/ user_stats.map[u].commits > 0
            /\ user_stats.map[u].prs >= 0
            /\ user_stats.map[u].commits >= 0
            /\ user_stats.map[u].lines >= 0

\* a report after a pull request whose /files request failed and a commit
\* fetch that failed (the server has commits, none was counted)
C6_Witness ==
    /\ pc = "done"
    /\ out.kind = "table"
    /\ remote # <<>>
    /\ commit_stats = EmptyDict
    /\ Keys(user_stats) = {"alice"}
    /\ user_stats.map["alice"] = [prs |-> 1, commits |-> 0, lines |-> 0]

StatOf(d, u, field) == IF Has(d, u) THEN d.map[u][field] ELSE 0

\* C8: the merged mapping has exactly the keys of the pull-request mapping
\* and of the commit mapping, and for every key its prs is that of the
\* pull-request mapping (0 if missing), its commits that of the commit
\* mapping (0 if missing) and its lines the sum of both (a missing side is 0).
C8_MergeIsUnion ==
    Reported =>
        /\ Keys(user_stats) = Keys(pr_stats) \cup Keys(commit_stats)
        /\ \A u \in Keys(user_stats) :
              /\ user_stats.map[u].prs = StatOf(pr_stats, u, "prs")
              /\ user_stats.map[u].commits = StatOf(commit_stats, u, "commits")
              /\ user_stats.map[u].lines =
                    StatOf(pr_stats, u, "lines") + StatOf(commit_stats, u, "lines")

C8_Witness ==
    /\ pc = "done"
    /\ Cardinality(Keys(user_stats)) = 3
    /\ Keys(pr_stats) = {"alice", "bob"}
    /\ Keys(commit_stats) = {"alice", "carol"}
    /\ pr_stats.map["alice"] = [prs |-> 1, commits |-> 0, lines |-> 7]
    /\ commit_stats.map["alice"] = [prs |-> 0, commits |-> 1, lines |-> 8]
    /\ user_stats.map["alice"] = [prs |-> 1, commits |-> 1, lines |-> 15]

====
